---- MODULE Spec2Model ----
(***************************************************************************)
(* Bug-tracker REST backend: Users, Projects, Bugs, Comments.              *)
(*                                                                         *)
(* The relational store is modelled as four tables (functions from the     *)
(* ids of the stored rows to the rows) with the foreign keys of the        *)
(* schema.  Every request handler (controller + service + repository) is   *)
(* an operator from (store, actor, request) to (store, HTTP status), and   *)
(* every action of the specification performs one whole request.           *)
(***************************************************************************)
EXTENDS Integers, FiniteSets, Sequences, TLC

\* ------------------------------------------------------------------ bounds
MaxUsers == 2
MaxProjects == 1
MaxBugs == 1
MaxComments == 2

\* --------------------------------------------------------------- constants
NULL == 0          \* SQL NULL in an id column (ids start at 1)
ABSENT == -1       \* a numeric key that the request body does not carry
Absent == "absent" \* a string key that the request body does not carry

UserIds == 1..MaxUsers
ProjectIds == 1..MaxProjects
BugIds == 1..MaxBugs
CommentIds == 1..MaxComments

Roles == {"Admin", "User"}
Names == {"n1", "n2"}   \* the texts a request may carry
NewNames == {"n1"}       \* the texts used when a row is created
NoToken == [userId |-> NULL, role |-> "none"]

\* What express.json() leaves in req.body: "none" is undefined, "empty" is
\* {}, the other two carry the key force.
Bodies == {"none", "empty", "forceFalse", "forceTrue"}
RawBodies == {"nobody", "empty", "forceFalse", "forceTrue"}

\* users, projects, bugs, comments: the tables; seq: the id sequences of the
\* tables; tokens: the session tokens issued so far; now: the clock, in hours;
\* inflight: the user-service requests that are between two awaits
VARIABLES users, projects, bugs, comments, seq, tokens, now, inflight

vars == <<users, projects, bugs, comments, seq, tokens, now, inflight>>

DB == [users |-> users, projects |-> projects, bugs |-> bugs,
       comments |-> comments, seq |-> seq]

Restrict(f, S) == [x \in S |-> f[x]]

Extend(f, k, v) == [x \in (DOMAIN f) \cup {k} |-> IF x = k THEN v ELSE f[x]]

\* A request without a payload reaches the controller with req.body either
\* undefined or {} depending on the body parser in use.
ParsedBodies(raw) ==
    IF raw = "nobody" THEN {"none", "empty"} ELSE {raw}

\* req.body && req.body.force
Force(body) == body = "forceTrue"

\* ------------------------------------------------------------ the store
UserRef(db, u) == u = NULL \/ u \in DOMAIN db.users

\* ProjectRepository.getProjectById / BugRepository.getBugById / ...
ProjectExists(db, id) == id \in DOMAIN db.projects
BugExists(db, id) == id \in DOMAIN db.bugs
CommentExists(db, id) == id \in DOMAIN db.comments
UserExists(db, id) == id \in DOMAIN db.users

BugsOfProject(db, pid) == {b \in DOMAIN db.bugs : db.bugs[b].projectid = pid}
CommentsOfBug(db, bid) == {c \in DOMAIN db.comments : db.comments[c].bugid = bid}
CommentsOfBugs(db, bs) == {c \in DOMAIN db.comments : db.comments[c].bugid \in bs}

\* DELETE FROM Comments WHERE CommentID = $1
DbDeleteComment(db, cid) ==
    [db EXCEPT !.comments = Restrict(@, DOMAIN @ \ {cid})]

\* DELETE FROM Bugs WHERE BugID = $1; Comments.BugID is ON DELETE CASCADE
DbDeleteBug(db, bid) ==
    [db EXCEPT !.bugs = Restrict(@, DOMAIN @ \ {bid}),
               !.comments = Restrict(@, DOMAIN @ \ CommentsOfBug(db, bid))]

\* DbDeleteProject without the ON DELETE CASCADE of Bugs.ProjectID
DbDeleteProjectNoCascade(db, pid) ==
    [db EXCEPT !.projects = Restrict(@, DOMAIN @ \ {pid})]

\* DELETE FROM Projects WHERE ProjectID = $1; Bugs.ProjectID is ON DELETE
\* CASCADE, and the deleted bugs take their comments with them
DbDeleteProject(db, pid) ==
    LET gone == BugsOfProject(db, pid) IN
    [db EXCEPT !.projects = Restrict(@, DOMAIN @ \ {pid}),
               !.bugs = Restrict(@, DOMAIN @ \ gone),
               !.comments = Restrict(@, DOMAIN @ \ CommentsOfBugs(db, gone))]

\* Comments.UserID has no ON DELETE action: the delete is rejected while a
\* comment of the user exists
DbUserDeleteBlocked(db, uid) ==
    \E c \in DOMAIN db.comments : db.comments[c].userid = uid

\* DbDeleteUser without the ON DELETE SET NULL of the user references
DbDeleteUserNoSetNull(db, uid) ==
    [db EXCEPT !.users = Restrict(@, DOMAIN @ \ {uid})]

\* DELETE FROM Users WHERE UserID = $1; the user references of Bugs and
\* Projects are ON DELETE SET NULL
DbDeleteUser(db, uid) ==
    LET unref(v) == IF v = uid THEN NULL ELSE v IN
    [db EXCEPT !.users = Restrict(@, DOMAIN @ \ {uid}),
               !.bugs = [b \in DOMAIN @ |->
                   [@[b] EXCEPT !.reportedby = unref(@), !.assignedto = unref(@)]],
               !.projects = [p \in DOMAIN @ |->
                   [@[p] EXCEPT !.createdby = unref(@), !.assignedto = unref(@)]]]

\* ------------------------------------------------------------- results
Result(db, status, count) == [db |-> db, status |-> status, count |-> count]

\* --------------------------------------------------------- middleware
\* authenticateToken: 401 without a token, 401 when the user of the token
\* no longer exists; otherwise req.user is the payload of the token
authenticateToken(db, tok) ==
    IF tok = NoToken THEN 401
    ELSE IF ~UserExists(db, tok.userId) THEN 401
    ELSE 200

\* ------------------------------------------------------ user services
\* A role that the body carries as a number: typeof role is not 'string'
NotAString == "number 7"

\* validateAndParseCredentials storing the role as the body gives it
ParseRoleAsGiven(role) == role

\* validateAndParseCredentials: Role is the supplied role when it is a
\* (non-empty) string and 'User' otherwise
ParseRole(role) ==
    IF role \notin {Absent, "", NotAString} THEN role ELSE "User"

\* createUserController -> createUser -> UserRepository.createUser
createUserController(db, credsOk, role) ==
    IF ~credsOk THEN Result(db, 500, 0)
    ELSE LET id == db.seq.users + 1 IN
         Result([db EXCEPT !.users = Extend(@, id, [role |-> ParseRole(role)]),
                           !.seq.users = id], 201, 0)

\* The dependency counts of deleteUserController
getProjectCountByUser(db, uid) ==
    Cardinality({p \in DOMAIN db.projects : db.projects[p].createdby = uid})

getBugCountByUser(db, uid) ==
    Cardinality({b \in DOMAIN db.bugs : db.bugs[b].assignedto = uid})

\* deleteUser (service): NotFound, then the three dependency checks, then
\* UserRepository.deleteUser.  Plain Errors are answered with 500 by
\* handleControllerError, AppError(CONFLICT) with 409.
deleteUser(db, uid) ==
    IF ~UserExists(db, uid) THEN Result(db, 500, 0)
    ELSE IF \E p \in DOMAIN db.projects : db.projects[p].createdby = uid
         THEN Result(db, 409, 0)
    ELSE IF \E b \in DOMAIN db.bugs : db.bugs[b].assignedto = uid
         THEN Result(db, 409, 0)
    ELSE IF \E c \in DOMAIN db.comments : db.comments[c].userid = uid
         THEN Result(db, 409, 0)
    ELSE IF DbUserDeleteBlocked(db, uid) THEN Result(db, 500, 0)
    ELSE Result(DbDeleteUser(db, uid), 204, 0)

deleteUserController(db, actor, uid, body) ==
    LET projectCount == getProjectCountByUser(db, uid)
        bugCount == getBugCountByUser(db, uid)
        n == projectCount + bugCount
    IN  IF actor.userId # uid /\ actor.role # "Admin" THEN Result(db, 403, 0)
        ELSE IF n > 0 /\ body = "none" THEN Result(db, 500, n)
        ELSE IF n > 0 /\ ~Force(body) THEN Result(db, 409, n)
        ELSE [deleteUser(db, uid) EXCEPT !.count = n]

\* --------------------------------------------------- project handlers
\* createProject (service): the name is required and the creator must be
\* an existing user; ProjectRepository.createProject inserts the row
createProject(db, data) ==
    IF data.projectname \notin Names THEN Result(db, 500, 0)
    ELSE IF ~UserExists(db, data.createdby) THEN Result(db, 500, 0)
    ELSE IF ~UserRef(db, data.assignedto) THEN Result(db, 500, 0)
    ELSE LET id == db.seq.projects + 1 IN
         Result([db EXCEPT !.projects = Extend(@, id,
                               [projectname |-> data.projectname,
                                createdby |-> data.createdby,
                                assignedto |-> data.assignedto]),
                           !.seq.projects = id], 201, 0)

\* createProjectController without the Admin check
createProjectControllerAnyRole(db, actor, body) ==
    createProject(db, [projectname |-> body.projectname,
                       assignedto |-> IF body.assignedto = ABSENT
                                      THEN NULL ELSE body.assignedto,
                       createdby |-> actor.userId])

createProjectController(db, actor, body) ==
    IF actor.role # "Admin" THEN Result(db, 403, 0)
    ELSE createProject(db, [projectname |-> body.projectname,
                            assignedto |-> IF body.assignedto = ABSENT
                                           THEN NULL ELSE body.assignedto,
                            createdby |-> actor.userId])

\* The message of the Error that updateProject throws, "none" when it
\* returns: validateUpdateProjectData keeps the fields that are present, and
\* ProjectRepository.updateProject writes those that are truthy
updateProjectError(db, pid, body) ==
    IF body.projectname = Absent THEN "No valid fields to update"
    ELSE IF body.projectname = "" THEN "No fields to update"
    ELSE "none"

\* updateProject (service + ProjectRepository.updateProject): only the
\* fields present are written; no field at all is an Error
updateProject(db, pid, body) ==
    IF updateProjectError(db, pid, body) # "none" THEN Result(db, 500, 0)
    ELSE Result([db EXCEPT !.projects[pid].projectname = body.projectname],
                200, 0)

updateProjectController(db, actor, pid, body) ==
    IF ~ProjectExists(db, pid) THEN Result(db, 404, 0)
    ELSE IF actor.role # "Admin" /\ actor.userId # db.projects[pid].createdby
         THEN Result(db, 403, 0)
    ELSE updateProject(db, pid, body)

getBugCountByProject(db, pid) == Cardinality(BugsOfProject(db, pid))

\* deleteProject (service) -> ProjectRepository.deleteProject
deleteProject(db, pid) == Result(DbDeleteProject(db, pid), 200, 0)

deleteProjectController(db, actor, pid, body) ==
    IF ~ProjectExists(db, pid) THEN Result(db, 404, 0)
    ELSE LET bugCount == getBugCountByProject(db, pid) IN
         IF bugCount > 0 /\ body = "none" THEN Result(db, 409, bugCount)
         ELSE [deleteProject(db, pid) EXCEPT !.count = bugCount]

\* ------------------------------------------------------- bug handlers
validStatuses == {"Open", "In Progress", "Resolved", "Closed"}
validPriorities == {"Low", "Medium", "High", "Critical"}

\* The value of key k of a request body; Absent when the body has no such key
Key(body, k) == IF k \in DOMAIN body THEN body[k] ELSE Absent

\* A falsy value of a string key: undefined or ''
Falsy(v) == v \in {Absent, ""}

\* validStatuses.includes / validPriorities.includes accepting every value
includesAnything(list, v) == TRUE

\* validStatuses.includes(Status) / validPriorities.includes(Priority)
includes(list, v) == v \in list

\* createBug without the lookup of the project
createBugNoProjectLookup(db, body) ==
    LET st == Key(body, "status")
        pr == Key(body, "priority")
    IN
    IF body.title \notin Names \/ body.projectid = ABSENT THEN Result(db, 500, 0)
    ELSE IF ~Falsy(st) /\ ~includes(validStatuses, st) THEN Result(db, 500, 0)
    ELSE IF ~Falsy(pr) /\ ~includes(validPriorities, pr) THEN Result(db, 500, 0)
    ELSE LET rep == IF body.reportedby = ABSENT THEN NULL ELSE body.reportedby
             asg == IF body.assignedto = ABSENT THEN NULL ELSE body.assignedto
             id == db.seq.bugs + 1
         IN  IF ~UserRef(db, rep) \/ ~UserRef(db, asg) THEN Result(db, 500, 0)
             ELSE Result([db EXCEPT !.bugs = Extend(@, id,
                                       [title |-> body.title,
                                        status |-> IF Falsy(st) THEN "Open" ELSE st,
                                        priority |-> IF Falsy(pr) THEN "Medium" ELSE pr,
                                        projectid |-> body.projectid,
                                        reportedby |-> rep,
                                        assignedto |-> asg]),
                                   !.seq.bugs = id], 201, 0)

\* createBug: validateAndParseBugData (Title and ProjectID required, the
\* project must exist, a Status or Priority that is given must be one of the
\* valid ones and defaults to 'Open' / 'Medium'), then
\* BugRepository.createBug; ReportedBy and AssignedTo are taken from the
\* body and are NULL when absent
createBug(db, body) ==
    LET st == Key(body, "status")
        pr == Key(body, "priority")
    IN
    IF body.title \notin Names \/ body.projectid = ABSENT THEN Result(db, 500, 0)
    ELSE IF ~ProjectExists(db, body.projectid) THEN Result(db, 500, 0)
    ELSE IF ~Falsy(st) /\ ~includes(validStatuses, st) THEN Result(db, 500, 0)
    ELSE IF ~Falsy(pr) /\ ~includes(validPriorities, pr) THEN Result(db, 500, 0)
    ELSE LET rep == IF body.reportedby = ABSENT THEN NULL ELSE body.reportedby
             asg == IF body.assignedto = ABSENT THEN NULL ELSE body.assignedto
             id == db.seq.bugs + 1
         IN  IF ~UserRef(db, rep) \/ ~UserRef(db, asg) THEN Result(db, 500, 0)
             ELSE Result([db EXCEPT !.bugs = Extend(@, id,
                                       [title |-> body.title,
                                        status |-> IF Falsy(st) THEN "Open" ELSE st,
                                        priority |-> IF Falsy(pr) THEN "Medium" ELSE pr,
                                        projectid |-> body.projectid,
                                        reportedby |-> rep,
                                        assignedto |-> asg]),
                                   !.seq.bugs = id], 201, 0)

createBugController(db, actor, body) == createBug(db, body)

\* BugRepository.updateBug running the UPDATE also when no field is set
updateBugErrorNoFieldCheck(db, bid, body) ==
    LET st == Key(body, "status")
        pr == Key(body, "priority")
    IN
    IF body.title = "" THEN "Invalid Title: Must be non-empty string"
    ELSE IF ~Falsy(st) /\ ~includes(validStatuses, st) THEN "Invalid Status"
    ELSE IF ~Falsy(pr) /\ ~includes(validPriorities, pr) THEN "Invalid Priority"
    ELSE IF body.assignedto # ABSENT /\ ~UserRef(db, body.assignedto)
         THEN "foreign key violation"
    ELSE "none"

\* The message of the Error that updateBug throws, "none" when it returns.
\* A body without any key is refused first; a body whose keys are all
\* unknown or falsy reaches BugRepository.updateBug, which has no field to
\* write.
updateBugError(db, bid, body) ==
    LET st == Key(body, "status")
        pr == Key(body, "priority")
    IN
    IF /\ body.title = Absent /\ body.assignedto = ABSENT
       /\ st = Absent /\ pr = Absent /\ Key(body, "other") = Absent
    THEN "No update data provided"
    ELSE IF body.title = "" THEN "Invalid Title: Must be non-empty string"
    ELSE IF ~Falsy(st) /\ ~includes(validStatuses, st) THEN "Invalid Status"
    ELSE IF ~Falsy(pr) /\ ~includes(validPriorities, pr) THEN "Invalid Priority"
    ELSE IF /\ body.title = Absent /\ body.assignedto = ABSENT
            /\ Falsy(st) /\ Falsy(pr)
         THEN "No fields to update"
    ELSE IF body.assignedto # ABSENT /\ ~UserRef(db, body.assignedto)
         THEN "foreign key violation"
    ELSE "none"

\* updateBug storing the defaults of a create for an absent Status or Priority
updateBugDefaulting(db, bid, body) ==
    LET st == Key(body, "status")
        pr == Key(body, "priority")
        err == updateBugError(db, bid, body)
    IN
    IF err = "No update data provided" THEN Result(db, 400, 0)
    ELSE IF err # "none" THEN Result(db, 500, 0)
    ELSE Result([db EXCEPT
                    !.bugs[bid].title =
                        IF body.title = Absent THEN @ ELSE body.title,
                    !.bugs[bid].status = IF Falsy(st) THEN "Open" ELSE st,
                    !.bugs[bid].priority = IF Falsy(pr) THEN "Medium" ELSE pr,
                    !.bugs[bid].assignedto =
                        IF body.assignedto = ABSENT THEN @ ELSE body.assignedto],
                200, 0)

\* updateBug: "No update data provided" (answered 400 by the controller)
\* for an empty body, validateAndParseUpdateBugData, then
\* BugRepository.updateBug, which writes only the fields that are set and
\* throws when there is none
updateBug(db, bid, body) ==
    LET st == Key(body, "status")
        pr == Key(body, "priority")
        err == updateBugError(db, bid, body)
    IN
    IF err = "No update data provided" THEN Result(db, 400, 0)
    ELSE IF err # "none" THEN Result(db, 500, 0)
    ELSE Result([db EXCEPT
                    !.bugs[bid].title =
                        IF body.title = Absent THEN @ ELSE body.title,
                    !.bugs[bid].status = IF Falsy(st) THEN @ ELSE st,
                    !.bugs[bid].priority = IF Falsy(pr) THEN @ ELSE pr,
                    !.bugs[bid].assignedto =
                        IF body.assignedto = ABSENT THEN @ ELSE body.assignedto],
                200, 0)

\* updateBugController with the assignee left out of the permission check
updateBugControllerNoAssignee(db, actor, bid, body) ==
    IF ~BugExists(db, bid) THEN Result(db, 404, 0)
    ELSE IF /\ actor.role # "Admin"
            /\ actor.userId # db.bugs[bid].reportedby
         THEN Result(db, 403, 0)
    ELSE updateBug(db, bid, body)

updateBugController(db, actor, bid, body) ==
    IF ~BugExists(db, bid) THEN Result(db, 404, 0)
    ELSE IF /\ actor.role # "Admin"
            /\ actor.userId # db.bugs[bid].reportedby
            /\ actor.userId # db.bugs[bid].assignedto
         THEN Result(db, 403, 0)
    ELSE updateBug(db, bid, body)

\* getCommentCountByBug -> CommentRepository.getCommentCountByBug
getCommentCountByBug(db, bid) == Cardinality(CommentsOfBug(db, bid))

\* deleteBug (service) -> BugRepository.deleteBug
deleteBug(db, bid) == Result(DbDeleteBug(db, bid), 200, 0)

\* deleteBugController taking any body at all as the confirmation
deleteBugControllerAnyBody(db, actor, bid, body) ==
    IF ~BugExists(db, bid) THEN Result(db, 404, 0)
    ELSE IF /\ actor.userId # db.bugs[bid].reportedby
            /\ actor.userId # db.bugs[bid].assignedto
         THEN Result(db, 403, 0)
    ELSE LET commentCount == getCommentCountByBug(db, bid) IN
         IF commentCount > 0 /\ body = "none" THEN Result(db, 409, commentCount)
         ELSE [deleteBug(db, bid) EXCEPT !.count = commentCount]

deleteBugController(db, actor, bid, body) ==
    IF ~BugExists(db, bid) THEN Result(db, 404, 0)
    ELSE IF /\ actor.userId # db.bugs[bid].reportedby
            /\ actor.userId # db.bugs[bid].assignedto
         THEN Result(db, 403, 0)
    ELSE LET commentCount == getCommentCountByBug(db, bid) IN
         IF commentCount > 0 /\ ~Force(body) THEN Result(db, 409, commentCount)
         ELSE [deleteBug(db, bid) EXCEPT !.count = commentCount]

\* --------------------------------------------------- comment handlers
\* CommentRepository.createComment: INSERT INTO Comments (BugID, UserID,
\* CommentText) VALUES ($1, $2, $3) with the id drawn from the sequence
DbInsertComment(db, row) ==
    LET id == db.seq.comments + 1 IN
    [db EXCEPT !.comments = Extend(@, id, row), !.seq.comments = id]

\* createComment without the lookup of the user
createCommentNoUserLookup(db, body) ==
    IF body.bugid = ABSENT \/ body.userid = ABSENT \/ body.commenttext \notin Names
    THEN Result(db, 500, 0)
    ELSE IF ~BugExists(db, body.bugid) THEN Result(db, 500, 0)
    ELSE Result(DbInsertComment(db, [bugid |-> body.bugid,
                                     userid |-> body.userid,
                                     commenttext |-> body.commenttext]),
                201, 0)

\* createComment: validateAndParseCommentData reads bugid, userid and
\* commenttext from the body and requires the bug and the user to exist
createComment(db, body) ==
    IF body.bugid = ABSENT \/ body.userid = ABSENT \/ body.commenttext \notin Names
    THEN Result(db, 500, 0)
    ELSE IF ~BugExists(db, body.bugid) THEN Result(db, 500, 0)
    ELSE IF ~UserExists(db, body.userid) THEN Result(db, 500, 0)
    ELSE Result(DbInsertComment(db, [bugid |-> body.bugid,
                                     userid |-> body.userid,
                                     commenttext |-> body.commenttext]),
                201, 0)

\* The controller adds the key UserID to the body; the service reads userid
createCommentController(db, actor, body) == createComment(db, body)

\* The message of the Error that updateComment throws, "none" when it
\* returns: a body without any key is refused first, a text that is not a
\* non-empty string next, and CommentRepository.updateComment refuses an
\* update without a text
updateCommentError(db, cid, body) ==
    IF body.commenttext = Absent /\ Key(body, "other") = Absent
    THEN "No update data provided"
    ELSE IF body.commenttext = Absent THEN "Comment text is required for update"
    ELSE IF body.commenttext \notin Names
         THEN "Invalid CommentText: Must be non-empty string"
    ELSE "none"

\* updateComment: empty body and invalid text are Errors (500); the
\* repository returns null for a missing row, answered 404
updateComment(db, cid, body) ==
    IF updateCommentError(db, cid, body) # "none" THEN Result(db, 500, 0)
    ELSE IF ~CommentExists(db, cid) THEN Result(db, 404, 0)
    ELSE Result([db EXCEPT !.comments[cid].commenttext = body.commenttext],
                200, 0)

updateCommentController(db, actor, cid, body) == updateComment(db, cid, body)

\* deleteComment -> CommentRepository.deleteComment: false (404) when no
\* row was deleted
deleteComment(db, cid) ==
    IF ~CommentExists(db, cid) THEN Result(db, 404, 0)
    ELSE Result(DbDeleteComment(db, cid), 200, 0)

deleteCommentController(db, actor, cid, body) == deleteComment(db, cid)

\* deleteCommentsByBug -> CommentRepository.deleteCommentsByBug: DELETE
\* FROM Comments WHERE BugID = $1, answered with the number of rows
deleteCommentsByBug(db, bid) ==
    Result([db EXCEPT !.comments =
                Restrict(@, DOMAIN @ \ CommentsOfBug(db, bid))],
           200, Cardinality(CommentsOfBug(db, bid)))

deleteCommentsByBugController(db, actor, bid) == deleteCommentsByBug(db, bid)

\* ------------------------------------------------------ request bodies
ProjectBodies ==
    [projectname : NewNames \cup {Absent}, assignedto : UserIds \cup {ABSENT}]

BugBodies ==
    [title : NewNames \cup {Absent}, projectid : ProjectIds \cup {ABSENT},
     reportedby : UserIds \cup {ABSENT}, assignedto : UserIds \cup {ABSENT}]

UpdateBugBodies ==
    [title : Names \cup {Absent, ""}, assignedto : UserIds \cup {NULL, ABSENT}]

CommentBodies ==
    [bugid : BugIds \cup {ABSENT}, userid : UserIds \cup {ABSENT},
     commenttext : NewNames \cup {Absent}]

UpdateCommentBodies == [commenttext : Names \cup {Absent, ""}]

UpdateProjectBodies == [projectname : Names \cup {Absent, ""}]

\* ------------------------------------------------------ specification
Init ==
    /\ users = <<>>
    /\ projects = <<>>
    /\ bugs = <<>>
    /\ comments = <<>>
    /\ seq = [users |-> 0, projects |-> 0, bugs |-> 0, comments |-> 0]
    /\ tokens = {}
    /\ now = 0
    /\ inflight = {}

\* The store after a request: what the handler's statements left in it
Respond(r) ==
    /\ users' = r.db.users
    /\ projects' = r.db.projects
    /\ bugs' = r.db.bugs
    /\ comments' = r.db.comments
    /\ seq' = r.db.seq

\* A route without requireAuth: the controller runs for every caller
GuardedNone(tok, r) == r

\* A route behind requireAuth: the controller runs only for a token that
\* authenticateToken accepts
Guarded(tok, r) ==
    IF authenticateToken(DB, tok) = 200 THEN r
    ELSE Result(DB, authenticateToken(DB, tok), 0)

Callers == tokens \cup {NoToken}

Register ==
    \E credsOk \in BOOLEAN, role \in Roles \cup {Absent} :
        /\ seq.users < MaxUsers
        /\ Respond(createUserController(DB, credsOk, role))
        /\ UNCHANGED <<tokens, now, inflight>>

\* loginUser: a token carrying the id and the stored role of the user
Login ==
    \E u \in DOMAIN users, passwordOk \in BOOLEAN :
        LET tok == [userId |-> u, role |-> users[u].role] IN
        /\ tokens' = IF passwordOk THEN tokens \cup {tok} ELSE tokens
        /\ UNCHANGED <<users, projects, bugs, comments, seq, now, inflight>>

DeleteUser ==
    \E tok \in Callers, uid \in UserIds, raw \in RawBodies :
      \E body \in ParsedBodies(raw) :
        /\ Respond(Guarded(tok, deleteUserController(DB, tok, uid, body)))
        /\ UNCHANGED <<tokens, now, inflight>>

CreateProject ==
    \E tok \in Callers, body \in ProjectBodies :
        /\ seq.projects < MaxProjects
        /\ Respond(Guarded(tok, createProjectController(DB, tok, body)))
        /\ UNCHANGED <<tokens, now, inflight>>

UpdateProject ==
    \E tok \in Callers, pid \in ProjectIds, body \in UpdateProjectBodies :
        /\ Respond(Guarded(tok, updateProjectController(DB, tok, pid, body)))
        /\ UNCHANGED <<tokens, now, inflight>>

DeleteProject ==
    \E tok \in Callers, pid \in ProjectIds, raw \in RawBodies :
      \E body \in ParsedBodies(raw) :
        /\ Respond(Guarded(tok, deleteProjectController(DB, tok, pid, body)))
        /\ UNCHANGED <<tokens, now, inflight>>

CreateBug ==
    \E tok \in Callers, body \in BugBodies :
        /\ seq.bugs < MaxBugs
        /\ Respond(Guarded(tok, createBugController(DB, tok, body)))
        /\ UNCHANGED <<tokens, now, inflight>>

UpdateBug ==
    \E tok \in Callers, bid \in BugIds, body \in UpdateBugBodies :
        /\ Respond(Guarded(tok, updateBugController(DB, tok, bid, body)))
        /\ UNCHANGED <<tokens, now, inflight>>

DeleteBug ==
    \E tok \in Callers, bid \in BugIds, raw \in RawBodies :
      \E body \in ParsedBodies(raw) :
        /\ Respond(Guarded(tok, deleteBugController(DB, tok, bid, body)))
        /\ UNCHANGED <<tokens, now, inflight>>

CreateComment ==
    \E tok \in Callers, body \in CommentBodies :
        /\ seq.comments < MaxComments
        /\ Respond(Guarded(tok, createCommentController(DB, tok, body)))
        /\ UNCHANGED <<tokens, now, inflight>>

UpdateComment ==
    \E tok \in Callers, cid \in CommentIds, body \in UpdateCommentBodies :
        /\ Respond(Guarded(tok, updateCommentController(DB, tok, cid, body)))
        /\ UNCHANGED <<tokens, now, inflight>>

DeleteComment ==
    \E tok \in Callers, cid \in CommentIds :
        /\ Respond(Guarded(tok, deleteCommentController(DB, tok, cid, "none")))
        /\ UNCHANGED <<tokens, now, inflight>>

DeleteCommentsByBug ==
    \E tok \in Callers, bid \in BugIds :
        /\ Respond(Guarded(tok, deleteCommentsByBugController(DB, tok, bid)))
        /\ UNCHANGED <<tokens, now, inflight>>

Next ==
    \/ Register
    \/ Login
    \/ DeleteUser
    \/ CreateProject
    \/ UpdateProject
    \/ DeleteProject
    \/ CreateBug
    \/ UpdateBug
    \/ DeleteBug
    \/ CreateComment
    \/ UpdateComment
    \/ DeleteComment
    \/ DeleteCommentsByBug

Spec == Init /\ [][Next]_vars

\* ============================================================ accounts
\* The user service in detail.  A stored user is a record with the columns
\* username, email, passwordhash and role; usernames and emails are
\* sequences of characters, so that trim() and toLowerCase() are computed.

\* jwt.sign(..., { expiresIn: '24h' }): the lifetime of a token, in hours
TokenLifetime == 24
\* password.length < 8
MinPasswordLength == 8

MaxClock == 26     \* the clock stops after this many hours
MaxTokens == 1     \* the logins that are answered with a token
MaxInflight == 1   \* the requests that may be between two awaits

Undefined == <<>>  \* a key that the request body does not carry

EmailA == <<"a", "@", "x", ".", "y">>
EmailAPadded == <<" ", "A", "@", "x", ".", "y", " ">>
EmailB == <<"b", "@", "x", ".", "y">>
EmailBad == <<"a", "@", "x">>
Emails == {EmailA, EmailAPadded, EmailB, EmailBad, Undefined}

Usernames == {<<"n">>, <<" ", "m">>, <<" ">>, Undefined}

\* "" stands for a missing password as well: both are falsy
Passwords == {"password1", "password2", "short", ""}

\* String.prototype.toLowerCase
toLowerCase(s) ==
    [i \in 1..Len(s) |-> CASE s[i] = "A" -> "a"
                           [] s[i] = "B" -> "b"
                           [] OTHER -> s[i]]

RECURSIVE trimStart(_)
trimStart(s) ==
    IF Len(s) > 0 /\ Head(s) = " " THEN trimStart(Tail(s)) ELSE s

RECURSIVE trimEnd(_)
trimEnd(s) ==
    IF Len(s) > 0 /\ s[Len(s)] = " " THEN trimEnd(SubSeq(s, 1, Len(s) - 1))
    ELSE s

\* String.prototype.trim
trim(s) == trimEnd(trimStart(s))

\* /^[^\s@]+@[^\s@]+\.[^\s@]+$/ : no white space, exactly one @, which is
\* not the first character, and a dot after it that is neither next to it
\* nor the last character
emailRe(s) ==
    \E i, j \in 1..Len(s) :
        /\ 1 < i /\ i + 1 < j /\ j < Len(s)
        /\ s[i] = "@" /\ s[j] = "."
        /\ \A k \in 1..Len(s) : s[k] # " " /\ (s[k] = "@" => k = i)

\* bcrypt.hash and bcrypt.compare
bcryptHash(password) == <<"bcrypt", password>>
bcryptCompare(password, hash) == hash = bcryptHash(password)

\* What a service call leaves behind: the store, the message of the Error
\* it threw ("none" when it returned) and the token it returned
Outcome(db, err, token) == [db |-> db, err |-> err, token |-> token]

\* What the client receives
Reply(db, status, message, token) ==
    [db |-> db, status |-> status, message |-> message, token |-> token]

\* handleControllerError for an Error that is neither an AppError nor a
\* driver or JWT error: 500 with the fixed message
handleControllerError(r) ==
    Reply(r.db, 500, "An unexpected error occurred", NoToken)

\* UserRepository.getUserByEmail: SELECT * FROM Users WHERE Email = $1
getUserByEmail(db, email) ==
    {u \in DOMAIN db.users : db.users[u].email = email}

\* Users.Email is UNIQUE: a row other than `self` holds the email
DbEmailTaken(db, email, self) ==
    \E u \in DOMAIN db.users \ {self} : db.users[u].email = email

\* UserRepository.createUser: INSERT INTO Users ...; the id is drawn from the
\* sequence also when the UNIQUE constraint on Email rejects the row
DbInsertUser(db, newUser) ==
    LET id == db.seq.users + 1 IN
    IF DbEmailTaken(db, newUser.email, NULL)
    THEN Outcome([db EXCEPT !.seq.users = id], "duplicate key", NoToken)
    ELSE Outcome([db EXCEPT !.users = Extend(@, id, newUser), !.seq.users = id],
                 "none", NoToken)

\* UserRepository.updateUser: UPDATE Users SET ... WHERE UserID = $1 with the
\* fields that are set; no row when the user is gone
DbUpdateUser(db, id, data) ==
    IF ~UserExists(db, id) THEN Outcome(db, "Failed to update user", NoToken)
    ELSE IF data.email # Undefined /\ DbEmailTaken(db, data.email, id)
         THEN Outcome(db, "duplicate key", NoToken)
    ELSE Outcome([db EXCEPT
                     !.users[id].username =
                         IF data.username = Undefined THEN @ ELSE data.username,
                     !.users[id].email =
                         IF data.email = Undefined THEN @ ELSE data.email,
                     !.users[id].role =
                         IF data.role = Absent THEN @ ELSE data.role],
                 "none", NoToken)

\* validateAndParseCredentials: "none" and the row to insert, or the message
validateAndParseCredentials(body) ==
    LET trimmedEmail == toLowerCase(trim(body.email))
        row == [username |-> trim(body.username),
                email |-> trimmedEmail,
                passwordhash |-> bcryptHash(body.password),
                role |-> ParseRole(body.role)]
    IN  IF body.username = Undefined \/ body.email = Undefined \/ body.password = ""
        THEN [err |-> "Missing credentials", row |-> row]
        ELSE IF ~emailRe(trimmedEmail)
             THEN [err |-> "Invalid email format", row |-> row]
        ELSE IF Len(body.password) < MinPasswordLength
             THEN [err |-> "Password must be at least 8 characters", row |-> row]
        ELSE [err |-> "none", row |-> row]

\* createUser up to the await of UserRepository.createUser
createUserCheck(db, body) ==
    LET parsed == validateAndParseCredentials(body) IN
    IF parsed.err # "none" THEN parsed
    ELSE IF getUserByEmail(db, parsed.row.email) # {}
         THEN [parsed EXCEPT !.err = "User with this email already exists"]
    ELSE parsed

\* createUser, with no other request between its awaits
createUser(db, body) ==
    LET checked == createUserCheck(db, body) IN
    IF checked.err # "none" THEN Outcome(db, checked.err, NoToken)
    ELSE DbInsertUser(db, checked.row)

\* createUserController, for a service outcome r
createUserReply(r) ==
    IF r.err = "none" THEN Reply(r.db, 201, "User created successfully", NoToken)
    ELSE handleControllerError(r)

\* loginUser distinguishing an unknown email from a wrong password
loginUserRevealing(db, email, password, t) ==
    IF email = Undefined \/ password = ""
    THEN Outcome(db, "Email and password are required", NoToken)
    ELSE LET found == getUserByEmail(db, trim(toLowerCase(email))) IN
         IF found = {} THEN Outcome(db, "User not found", NoToken)
         ELSE LET u == CHOOSE x \in found : TRUE IN
              IF ~bcryptCompare(password, db.users[u].passwordhash)
              THEN Outcome(db, "Invalid email or password", NoToken)
              ELSE Outcome(db, "none", [userId |-> u, role |-> db.users[u].role,
                                        exp |-> t + TokenLifetime])

\* loginUser at time t: the token carries the id and the stored role of the
\* user and expires TokenLifetime hours later
loginUser(db, email, password, t) ==
    IF email = Undefined \/ password = ""
    THEN Outcome(db, "Email and password are required", NoToken)
    ELSE LET found == getUserByEmail(db, trim(toLowerCase(email))) IN
         IF found = {} THEN Outcome(db, "Invalid email or password", NoToken)
         ELSE LET u == CHOOSE x \in found : TRUE IN
              IF ~bcryptCompare(password, db.users[u].passwordhash)
              THEN Outcome(db, "Invalid email or password", NoToken)
              ELSE Outcome(db, "none", [userId |-> u, role |-> db.users[u].role,
                                        exp |-> t + TokenLifetime])

loginUserController(db, body, t) ==
    LET r == loginUser(db, body.email, body.password, t) IN
    IF r.err = "none" THEN Reply(r.db, 200, "Login successful", r.token)
    ELSE handleControllerError(r)

\* updateUserProfile up to the await of UserRepository.updateUser
updateUserProfileCheck(db, id, data) ==
    LET email == toLowerCase(trim(data.email))
        row == [username |-> trim(data.username),
                email |-> IF data.email = Undefined THEN Undefined ELSE email,
                role |-> data.role]
    IN  IF ~UserExists(db, id) THEN [err |-> "User not found", row |-> row]
        ELSE IF data.username # Undefined /\ trim(data.username) = <<>>
             THEN [err |-> "Invalid username", row |-> row]
        ELSE IF data.email # Undefined /\ ~emailRe(email)
             THEN [err |-> "Invalid email format", row |-> row]
        ELSE IF data.email # Undefined
                /\ \E u \in getUserByEmail(db, email) : u # id
             THEN [err |-> "Email is already taken", row |-> row]
        ELSE IF data.username = Undefined /\ data.email = Undefined
                /\ data.role = Absent
             THEN [err |-> "No valid fields to update", row |-> row]
        ELSE [err |-> "none", row |-> row]

\* updateUserProfile, with no other request between its awaits
updateUserProfile(db, id, data) ==
    LET checked == updateUserProfileCheck(db, id, data) IN
    IF checked.err # "none" THEN Outcome(db, checked.err, NoToken)
    ELSE DbUpdateUser(db, id, checked.row)

\* updateUserProfileController, for a service outcome r
updateUserProfileReply(r) ==
    IF r.err = "none" THEN Reply(r.db, 200, "Profile updated successfully", NoToken)
    ELSE handleControllerError(r)

\* updateUserProfileController: the user updated is the one of the token,
\* and username, email and role are taken from the body
updateUserProfileController(db, actor, body) ==
    IF actor.userId = NULL THEN Reply(db, 401, "Unauthorized", NoToken)
    ELSE updateUserProfileReply(updateUserProfile(db, actor.userId, body))

updateUserPassword(db, userId, currentPassword, newPassword) ==
    IF currentPassword = "" \/ newPassword = ""
    THEN Outcome(db, "Current password and new password are required", NoToken)
    ELSE IF Len(newPassword) < MinPasswordLength
         THEN Outcome(db, "New password must be at least 8 characters", NoToken)
    ELSE IF ~UserExists(db, userId) THEN Outcome(db, "User not found", NoToken)
    ELSE IF ~bcryptCompare(currentPassword, db.users[userId].passwordhash)
         THEN Outcome(db, "Current password is incorrect", NoToken)
    ELSE Outcome([db EXCEPT !.users[userId].passwordhash = bcryptHash(newPassword)],
                 "none", NoToken)

updateUserPasswordController(db, actor, body) ==
    IF actor.userId = NULL THEN Reply(db, 401, "Unauthorized", NoToken)
    ELSE LET r == updateUserPassword(db, actor.userId, body.currentPassword,
                                     body.newPassword)
         IN  IF r.err = "none"
             THEN Reply(r.db, 204, "Password updated successfully", NoToken)
             ELSE handleControllerError(r)

\* jwt.verify at time t: TokenExpiredError from the expiry on
jwtVerify(tok, t) == t < tok.exp

\* authenticateToken at time t without the lookup of the token's user
authenticateTokenAtNoLookup(db, tok, t) ==
    IF tok = NoToken THEN 401
    ELSE IF ~jwtVerify(tok, t) THEN 401
    ELSE 200

\* authenticateToken at time t: 401 without a token, for an expired token
\* and for a token whose user no longer exists
authenticateTokenAt(db, tok, t) ==
    IF tok = NoToken THEN 401
    ELSE IF ~jwtVerify(tok, t) THEN 401
    ELSE authenticateToken(db, tok)

\* A route behind requireAuth at time t
GuardedAt(tok, t, r) ==
    IF authenticateTokenAt(DB, tok, t) = 200 THEN r
    ELSE Reply(DB, authenticateTokenAt(DB, tok, t), "Unauthorized", NoToken)

\* ------------------------------------------------------ request bodies
RegisterBodies ==
    [username : Usernames, email : Emails, password : Passwords,
     role : Roles \cup {Absent}]

LoginBodies == [email : Emails, password : Passwords]

ProfileBodies ==
    [username : Usernames, email : Emails, role : Roles \cup {Absent}]

PasswordBodies == [currentPassword : Passwords, newPassword : Passwords]

\* The requests that the actions of the account specifications send
RegisterInputs ==
    [username : {<<"n">>}, email : {EmailA, EmailAPadded, EmailB, EmailBad},
     password : {"password1", "short"}, role : Roles \cup {Absent}]

ProfileInputs ==
    [username : {Undefined}, email : {Undefined, EmailAPadded, EmailB},
     role : Roles \cup {Absent}]

\* ------------------------------------------------- account actions
\* POST /users/register, with no other request between its awaits
RegisterAccount ==
    \E body \in RegisterInputs :
        /\ seq.users < MaxUsers
        /\ Respond(createUserReply(createUser(DB, body)))
        /\ UNCHANGED <<tokens, now, inflight>>

\* POST /users/login
LoginAccount ==
    \E body \in LoginBodies :
        LET r == loginUserController(DB, body, now) IN
        /\ Cardinality(tokens) < MaxTokens
        /\ tokens' = IF r.status = 200 THEN tokens \cup {r.token} ELSE tokens
        /\ UNCHANGED <<users, projects, bugs, comments, seq, now, inflight>>

\* PUT /users/change-password
ChangePassword ==
    \E tok \in Callers, body \in PasswordBodies :
        /\ Respond(GuardedAt(tok, now, updateUserPasswordController(DB, tok, body)))
        /\ UNCHANGED <<tokens, now, inflight>>

\* PUT /users/profile, with no other request between its awaits
UpdateProfile ==
    \E tok \in Callers, body \in ProfileInputs :
        /\ Respond(GuardedAt(tok, now, updateUserProfileController(DB, tok, body)))
        /\ UNCHANGED <<tokens, now, inflight>>

\* DELETE /users/:id
DeleteAccount ==
    \E tok \in Callers, uid \in UserIds, body \in Bodies :
        /\ Respond(GuardedAt(tok, now, deleteUserController(DB, tok, uid, body)))
        /\ UNCHANGED <<tokens, now, inflight>>

\* An hour passes
Tick ==
    /\ now < MaxClock
    /\ now' = now + 1
    /\ UNCHANGED <<users, projects, bugs, comments, seq, tokens, inflight>>

\* POST /users/register up to the await of UserRepository.createUser
RegisterCheck ==
    \E body \in RegisterInputs :
        LET checked == createUserCheck(DB, body) IN
        /\ seq.users < MaxUsers
        /\ Cardinality(inflight) < MaxInflight
        /\ inflight' = IF checked.err = "none"
                       THEN inflight \cup {[op |-> "create", id |-> NULL,
                                            row |-> checked.row]}
                       ELSE inflight
        /\ UNCHANGED <<users, projects, bugs, comments, seq, tokens, now>>

\* ... and from that await on
RegisterInsert ==
    \E req \in inflight :
        /\ req.op = "create"
        /\ Respond(createUserReply(DbInsertUser(DB, req.row)))
        /\ inflight' = inflight \ {req}
        /\ UNCHANGED <<tokens, now>>

\* PUT /users/profile up to the await of UserRepository.updateUser
ProfileCheck ==
    \E tok \in Callers, body \in ProfileInputs :
        LET checked == updateUserProfileCheck(DB, tok.userId, body) IN
        /\ authenticateTokenAt(DB, tok, now) = 200
        /\ Cardinality(inflight) < MaxInflight
        /\ inflight' = IF checked.err = "none"
                       THEN inflight \cup {[op |-> "update", id |-> tok.userId,
                                            row |-> checked.row]}
                       ELSE inflight
        /\ UNCHANGED <<users, projects, bugs, comments, seq, tokens, now>>

\* ... and from that await on
ProfileWrite ==
    \E req \in inflight :
        /\ req.op = "update"
        /\ Respond(updateUserProfileReply(DbUpdateUser(DB, req.id, req.row)))
        /\ inflight' = inflight \ {req}
        /\ UNCHANGED <<tokens, now>>

\* Sessions: register, login, password change, profile update, delete and
\* the passing of time
NextSession ==
    \/ RegisterAccount
    \/ LoginAccount
    \/ ChangePassword
    \/ UpdateProfile
    \/ DeleteAccount
    \/ Tick

SpecSession == Init /\ [][NextSession]_vars

\* Accounts: register and profile update as the two steps around their
\* awaits, interleaved with whole requests
NextAccounts ==
    \/ RegisterAccount
    \/ RegisterCheck
    \/ RegisterInsert
    \/ UpdateProfile
    \/ ProfileCheck
    \/ ProfileWrite
    \/ LoginAccount
    \/ DeleteAccount

SpecAccounts == Init /\ [][NextAccounts]_vars

\* ------------------------------------------------ status and priority
\* The Status and Priority values a request may carry: the valid ones, one
\* that is not, '' and none
StatusInputs == validStatuses \cup {"Reopened", "", Absent}
PriorityInputs == validPriorities \cup {"Urgent", "", Absent}

StatusBugBodies ==
    [title : NewNames, projectid : ProjectIds,
     reportedby : {ABSENT}, assignedto : {ABSENT},
     status : StatusInputs, priority : PriorityInputs]

StatusUpdateBodies ==
    [title : {Absent, "n2"}, assignedto : {ABSENT},
     status : StatusInputs, priority : PriorityInputs]

\* POST /bugs with a Status and a Priority
CreateBugWithStatus ==
    \E tok \in Callers, body \in StatusBugBodies :
        /\ seq.bugs < MaxBugs
        /\ Respond(Guarded(tok, createBugController(DB, tok, body)))
        /\ UNCHANGED <<tokens, now, inflight>>

\* PUT /bugs/:id with a Status and a Priority
UpdateBugStatus ==
    \E tok \in Callers, bid \in BugIds, body \in StatusUpdateBodies :
        /\ Respond(Guarded(tok, updateBugController(DB, tok, bid, body)))
        /\ UNCHANGED <<tokens, now, inflight>>

NextBugs ==
    \/ Register
    \/ Login
    \/ CreateProject
    \/ CreateBugWithStatus
    \/ UpdateBugStatus

SpecBugs == Init /\ [][NextBugs]_vars

\* ------------------------------------------------------ partial updates
MaxUpdatedComments == 1   \* the comments created before the updates

\* The update payloads of a bug, a project and a comment: every key is
\* either absent or carries a value other than the one a create stores
PartialBugBodies ==
    [title : {Absent, "n2"}, assignedto : UserIds \cup {ABSENT},
     status : {Absent, "Closed"}, priority : {Absent, "High"}]

PartialProjectBodies == [projectname : {Absent, "n2"}]

PartialCommentBodies == [commenttext : {Absent, "n2"}]

\* POST /projects
PostProject ==
    \E tok \in Callers :
        /\ seq.projects < MaxProjects
        /\ Respond(Guarded(tok, createProjectController(DB, tok,
               [projectname |-> "n1", assignedto |-> ABSENT])))
        /\ UNCHANGED <<tokens, now, inflight>>

\* PUT /projects/:id
PutProject ==
    \E tok \in Callers, pid \in ProjectIds, body \in PartialProjectBodies :
        /\ Respond(Guarded(tok, updateProjectController(DB, tok, pid, body)))
        /\ UNCHANGED <<tokens, now, inflight>>

\* POST /bugs
PostBug ==
    \E tok \in Callers, st \in {Absent, "Resolved"} :
        /\ seq.bugs < MaxBugs
        /\ Respond(Guarded(tok, createBugController(DB, tok,
               [title |-> "n1", projectid |-> 1, reportedby |-> ABSENT,
                assignedto |-> ABSENT, status |-> st, priority |-> Absent])))
        /\ UNCHANGED <<tokens, now, inflight>>

\* PUT /bugs/:id
PutBug ==
    \E tok \in Callers, bid \in BugIds, body \in PartialBugBodies :
        /\ Respond(Guarded(tok, updateBugController(DB, tok, bid, body)))
        /\ UNCHANGED <<tokens, now, inflight>>

\* POST /comments
PostComment ==
    \E tok \in Callers :
        /\ seq.comments < MaxUpdatedComments
        /\ Respond(Guarded(tok, createCommentController(DB, tok,
               [bugid |-> 1, userid |-> tok.userId, commenttext |-> "n1"])))
        /\ UNCHANGED <<tokens, now, inflight>>

\* PUT /comments/:id
PutComment ==
    \E tok \in Callers, cid \in CommentIds, body \in PartialCommentBodies :
        /\ Respond(Guarded(tok, updateCommentController(DB, tok, cid, body)))
        /\ UNCHANGED <<tokens, now, inflight>>

\* Updates: accounts with their full rows, and the creates and updates of
\* the other three entities
NextUpdates ==
    \/ RegisterAccount
    \/ LoginAccount
    \/ UpdateProfile
    \/ PostProject
    \/ PutProject
    \/ PostBug
    \/ PutBug
    \/ PostComment
    \/ PutComment

SpecUpdates == Init /\ [][NextUpdates]_vars

\* --------------------------------------------------- concurrent updates
MaxConcurrentUpdates == 2   \* the updates that may be between two awaits

\* updateBugController up to the await of updateBug: the bug that
\* getBugById returned and the permission check on it
updateBugControllerCheck(db, actor, bid) ==
    IF ~BugExists(db, bid) THEN 404
    ELSE IF /\ actor.role # "Admin"
            /\ actor.userId # db.bugs[bid].reportedby
            /\ actor.userId # db.bugs[bid].assignedto
         THEN 403
    ELSE 200

\* updateBugController refusing an update of a row that was written since
\* getBugById read it
updateBugControllerWriteIfUnchanged(db, req) ==
    IF db.bugs[req.id] # req.seen THEN Result(db, 409, 0)
    ELSE updateBug(db, req.id, req.body)

\* updateBugController from the await of updateBug on: the UPDATE statement
\* of BugRepository.updateBug and the answer
updateBugControllerWrite(db, req) == updateBug(db, req.id, req.body)

\* PUT /bugs/:id up to the await of updateBug, with a valid payload
PutBugCheck ==
    \E tok \in Callers, bid \in BugIds,
       body \in [title : {Absent, "n1", "n2"}, assignedto : UserIds \cup {ABSENT}]
                    \ {[title |-> Absent, assignedto |-> ABSENT]} :
        /\ authenticateToken(DB, tok) = 200
        /\ Cardinality(inflight) < MaxConcurrentUpdates
        /\ inflight' = IF updateBugControllerCheck(DB, tok, bid) = 200
                       THEN inflight \cup {[op |-> "updateBug", id |-> bid,
                                            body |-> body, seen |-> bugs[bid]]}
                       ELSE inflight
        /\ UNCHANGED <<users, projects, bugs, comments, seq, tokens, now>>

\* ... and from that await on
PutBugWrite ==
    \E req \in inflight :
        /\ req.op = "updateBug"
        /\ Respond(updateBugControllerWrite(DB, req))
        /\ inflight' = inflight \ {req}
        /\ UNCHANGED <<tokens, now>>

\* Racing updates: the two steps of PUT /bugs/:id interleaved, after the
\* registrations, logins and creates that set the scene
NextRace ==
    \/ Register
    \/ Login
    \/ PostProject
    \/ PostBug
    \/ PutBugCheck
    \/ PutBugWrite

SpecRace == Init /\ [][NextRace]_vars

\* ------------------------------------------------- guarded deletes
\* deleteBugController up to the await of deleteBug: the bug that getBugById
\* returned, the permission check and the count of its comments
deleteBugControllerCheck(db, actor, bid, body) ==
    IF ~BugExists(db, bid) THEN 404
    ELSE IF /\ actor.userId # db.bugs[bid].reportedby
            /\ actor.userId # db.bugs[bid].assignedto
         THEN 403
    ELSE IF getCommentCountByBug(db, bid) > 0 /\ ~Force(body) THEN 409
    ELSE 200

\* deleteProjectController up to the await of deleteProject
deleteProjectControllerCheck(db, actor, pid, body) ==
    IF ~ProjectExists(db, pid) THEN 404
    ELSE IF getBugCountByProject(db, pid) > 0 /\ body = "none" THEN 409
    ELSE 200

\* DELETE /bugs/:id up to the await of deleteBug
DeleteBugCheck ==
    \E tok \in Callers, bid \in BugIds, body \in Bodies :
        /\ authenticateToken(DB, tok) = 200
        /\ Cardinality(inflight) < MaxInflight
        /\ inflight' = IF deleteBugControllerCheck(DB, tok, bid, body) = 200
                       THEN inflight \cup {[op |-> "deleteBug", id |-> bid,
                                            body |-> body]}
                       ELSE inflight
        /\ UNCHANGED <<users, projects, bugs, comments, seq, tokens, now>>

\* ... and from that await on: the DELETE statement of BugRepository.deleteBug
DeleteBugRun ==
    \E req \in inflight :
        /\ req.op = "deleteBug"
        /\ Respond(deleteBug(DB, req.id))
        /\ inflight' = inflight \ {req}
        /\ UNCHANGED <<tokens, now>>

\* DELETE /projects/:id up to the await of deleteProject
DeleteProjectCheck ==
    \E tok \in Callers, pid \in ProjectIds, body \in Bodies :
        /\ authenticateToken(DB, tok) = 200
        /\ Cardinality(inflight) < MaxInflight
        /\ inflight' = IF deleteProjectControllerCheck(DB, tok, pid, body) = 200
                       THEN inflight \cup {[op |-> "deleteProject", id |-> pid,
                                            body |-> body]}
                       ELSE inflight
        /\ UNCHANGED <<users, projects, bugs, comments, seq, tokens, now>>

\* ... and from that await on
DeleteProjectRun ==
    \E req \in inflight :
        /\ req.op = "deleteProject"
        /\ Respond(deleteProject(DB, req.id))
        /\ inflight' = inflight \ {req}
        /\ UNCHANGED <<tokens, now>>

\* Guarded deletes: the two steps of DELETE /bugs/:id and of
\* DELETE /projects/:id interleaved with the creates
NextGuard ==
    \/ Register
    \/ Login
    \/ CreateProject
    \/ CreateBug
    \/ CreateComment
    \/ DeleteBugCheck
    \/ DeleteBugRun
    \/ DeleteProjectCheck
    \/ DeleteProjectRun

SpecGuard == Init /\ [][NextGuard]_vars

\* ------------------------------------------------------------- getPool
MAX_RETRIES == 10
RETRY_DELAY_MS == 5000

\* The catch block with the comparison attempt <= MAX_RETRIES
getPoolCatchOneMore(c, error) ==
    IF c.attempt <= MAX_RETRIES
    THEN [c EXCEPT !.pc = "wait", !.errors = Append(@, error)]
    ELSE [c EXCEPT !.pc = "thrown", !.errors = Append(@, error),
                   !.thrown = error]

\* The catch block of the loop of getPool: wait and retry if attempts
\* remain, else throw the error just caught
getPoolCatch(c, error) ==
    IF c.attempt < MAX_RETRIES
    THEN [c EXCEPT !.pc = "wait", !.errors = Append(@, error)]
    ELSE [c EXCEPT !.pc = "thrown", !.errors = Append(@, error),
                   !.thrown = error]

\* A call of getPool enters the loop: attempt is the loop variable, errors
\* the errors caught so far, waited the milliseconds spent in setTimeout,
\* thrown the error the call ended with
PoolCall ==
    /\ inflight = {}
    /\ inflight' = {[op |-> "getPool", pc |-> "connect", attempt |-> 1,
                     errors |-> <<>>, waited |-> 0, thrown |-> "none"]}
    /\ UNCHANGED <<users, projects, bugs, comments, seq, tokens, now>>

\* await pool.connect() resolves: the client is released, the pool returned
PoolConnected ==
    \E c \in inflight :
        /\ c.op = "getPool" /\ c.pc = "connect"
        /\ inflight' = (inflight \ {c}) \cup {[c EXCEPT !.pc = "returned"]}
        /\ UNCHANGED <<users, projects, bugs, comments, seq, tokens, now>>

\* await pool.connect() rejects, with one of two error codes
PoolConnectFailed ==
    \E c \in inflight, error \in {"ECONNREFUSED", "ETIMEOUT"} :
        /\ c.op = "getPool" /\ c.pc = "connect"
        /\ inflight' = (inflight \ {c}) \cup {getPoolCatch(c, error)}
        /\ UNCHANGED <<users, projects, bugs, comments, seq, tokens, now>>

\* The timer of setTimeout(resolve, RETRY_DELAY_MS) fires: next iteration
PoolRetry ==
    \E c \in inflight :
        /\ c.op = "getPool" /\ c.pc = "wait"
        /\ inflight' = (inflight \ {c}) \cup
               {[c EXCEPT !.pc = "connect", !.attempt = @ + 1,
                          !.waited = @ + RETRY_DELAY_MS]}
        /\ UNCHANGED <<users, projects, bugs, comments, seq, tokens, now>>

NextPool ==
    \/ PoolCall
    \/ PoolConnected
    \/ PoolConnectFailed
    \/ PoolRetry

\* pool.connect() settles (connectionTimeoutMillis) and the timer fires:
\* a step of the call that is enabled is eventually taken
SpecPool ==
    /\ Init
    /\ [][NextPool]_vars
    /\ WF_vars(PoolConnected \/ PoolConnectFailed)
    /\ WF_vars(PoolRetry)

\* ---------------------------------------------------------- properties
\* The authenticated actors of a state: the payloads of the issued tokens
\* that authenticateToken accepts (req.user of a request behind requireAuth)
Actors == {tok \in tokens : authenticateToken(DB, tok) = 200}

\* C1: for every existing bug and every authenticated actor, the delete of
\* the bug is permitted (not answered 403) if and only if the actor is
\* Admin, or the reporter, or the assignee of the bug; a denied delete is
\* answered 403 and leaves the bug and its comments in place.
C1_DeleteBugPermittedIffAdminOrOwner ==
    \A tok \in Actors, b \in DOMAIN bugs, body \in Bodies :
        LET r == deleteBugController(DB, tok, b, body)
            permitted == \/ tok.role = "Admin"
                         \/ tok.userId = bugs[b].reportedby
                         \/ tok.userId = bugs[b].assignedto
        IN  /\ (r.status # 403) <=> permitted
            /\ r.status = 403 => r.db = DB

\* C2: for every existing project, an update or a delete by an actor who
\* is neither Admin nor the creator of the project is answered 403 and
\* changes nothing; Admin and the creator are not answered 403.
C2_ProjectUpdateDeleteOnlyAdminOrCreator ==
    \A tok \in Actors, p \in DOMAIN projects :
        LET allowed == tok.role = "Admin" \/ tok.userId = projects[p].createdby
        IN  /\ \A body \in UpdateProjectBodies :
                 LET r == updateProjectController(DB, tok, p, body)
                 IN  IF allowed THEN r.status # 403
                     ELSE r.status = 403 /\ r.db = DB
            /\ \A body \in Bodies :
                 LET r == deleteProjectController(DB, tok, p, body)
                 IN  IF allowed THEN r.status # 403
                     ELSE r.status = 403 /\ r.db = DB

\* C3: for every existing comment, an update or a delete by an
\* authenticated actor who is neither the author of the comment nor Admin
\* is answered 403 and leaves the comment unchanged.
C3_CommentUpdateDeleteOnlyAuthorOrAdmin ==
    \A tok \in Actors, c \in DOMAIN comments :
        (tok.role # "Admin" /\ tok.userId # comments[c].userid) =>
            /\ \A body \in UpdateCommentBodies :
                 LET r == updateCommentController(DB, tok, c, body)
                 IN  r.status = 403 /\ r.db = DB
            /\ LET r == deleteCommentController(DB, tok, c, "none")
               IN  r.status = 403 /\ r.db = DB

\* C4: for every existing bug and every authenticated actor, the update of
\* the bug is permitted (not answered 403) if and only if the actor is
\* Admin, or the reporter, or the assignee of the bug; every other actor
\* is answered 403 and the store is unchanged; the update of the reporter
\* (and of every permitted actor) with a valid payload is answered 200 and
\* writes exactly the fields of the payload.
C4_UpdateBugPermittedIffAdminOrOwner ==
    \A tok \in Actors, b \in DOMAIN bugs, body \in UpdateBugBodies :
        LET r == updateBugController(DB, tok, b, body)
            permitted == \/ tok.role = "Admin"
                         \/ tok.userId = bugs[b].reportedby
                         \/ tok.userId = bugs[b].assignedto
            valid == /\ body.title # ""
                     /\ body.title # Absent \/ body.assignedto # ABSENT
                     /\ body.assignedto \in {ABSENT, NULL} \cup DOMAIN users
        IN  /\ (r.status # 403) <=> permitted
            /\ ~permitted => r.db = DB
            /\ (permitted /\ valid) =>
                 /\ r.status = 200
                 /\ r.db.bugs[b] =
                      [bugs[b] EXCEPT
                          !.title = IF body.title = Absent THEN @ ELSE body.title,
                          !.assignedto = IF body.assignedto = ABSENT
                                         THEN @ ELSE body.assignedto]

\* C4 witness: a bug whose title an update has rewritten, reported by an
\* authenticated actor of role User who is not its assignee; the update of
\* that reporter is answered 200
C4_ReporterUpdates ==
    \E tok \in Actors, b \in DOMAIN bugs :
        /\ tok.role = "User"
        /\ tok.userId = bugs[b].reportedby
        /\ tok.userId # bugs[b].assignedto
        /\ bugs[b].title = "n2"
        /\ updateBugController(DB, tok, b,
               [title |-> "n1", assignedto |-> ABSENT]).status = 200

C6_MissingTargetIs404ForEveryActor ==
    \A tok \in Actors :
        /\ \A p \in ProjectIds \ DOMAIN projects :
             /\ \A body \in UpdateProjectBodies :
                  updateProjectController(DB, tok, p, body).status = 404
             /\ \A body \in Bodies :
                  deleteProjectController(DB, tok, p, body).status = 404
        /\ \A b \in BugIds \ DOMAIN bugs :
             /\ \A body \in UpdateBugBodies :
                  updateBugController(DB, tok, b, body).status = 404
             /\ \A body \in Bodies :
                  deleteBugController(DB, tok, b, body).status = 404
        /\ \A c \in CommentIds \ DOMAIN comments :
             /\ \A body \in UpdateCommentBodies :
                  updateCommentController(DB, tok, c, body).status = 404
             /\ deleteCommentController(DB, tok, c, "none").status = 404
        /\ \A u \in UserIds \ DOMAIN users, body \in Bodies :
             deleteUserController(DB, tok, u, body).status = 404

\* C7: the delete of a project that has at least one bug, in a request
\* that does not carry force = true, is answered 409 with the number of
\* bugs and deletes nothing; the delete goes ahead only with force = true
\* or for a project without bugs.
C7_DeleteProjectNeedsForce ==
    \A tok \in Actors, p \in DOMAIN projects, body \in Bodies :
        LET r == deleteProjectController(DB, tok, p, body)
            n == Cardinality({b \in DOMAIN bugs : bugs[b].projectid = p})
        IN  /\ (n > 0 /\ body # "forceTrue") =>
                 r.status = 409 /\ r.count = n /\ r.db = DB
            /\ r.db # DB => (body = "forceTrue" \/ n = 0)

C9_DeleteUserRefusedWithConflict ==
    \A tok \in Actors, u \in DOMAIN users, body \in Bodies :
        (tok.userId = u \/ tok.role = "Admin") =>
            LET r == deleteUserController(DB, tok, u, body)
                dependents ==
                    \/ \E p \in DOMAIN projects : projects[p].createdby = u
                    \/ \E b \in DOMAIN bugs : bugs[b].assignedto = u
                    \/ \E c \in DOMAIN comments : comments[c].userid = u
            IN  IF dependents THEN r.status = 409 /\ r.db = DB
                ELSE r.status = 204 /\ u \notin DOMAIN r.db.users

\* C10: a project delete that succeeds leaves none of the project's bugs
\* and none of the comments of those bugs, and in every reachable state
\* every stored bug references a stored project and every stored comment
\* references a stored bug.
C10_CascadeAndReferentialIntegrity ==
    /\ \A b \in DOMAIN bugs : bugs[b].projectid \in DOMAIN projects
    /\ \A c \in DOMAIN comments : comments[c].bugid \in DOMAIN bugs
    /\ \A tok \in Actors, p \in DOMAIN projects, body \in Bodies :
        LET r == deleteProjectController(DB, tok, p, body)
            gone == {b \in DOMAIN bugs : bugs[b].projectid = p}
        IN  r.status = 200 =>
              /\ p \notin DOMAIN r.db.projects
              /\ DOMAIN r.db.bugs = DOMAIN bugs \ gone
              /\ DOMAIN r.db.comments =
                   {c \in DOMAIN comments : comments[c].bugid \notin gone}

\* C10 witness: a project with a bug that has two comments; its delete
\* with force = true is answered 200 and leaves no bug and no comment
C10_ProjectWithBugAndComments ==
    \E tok \in Actors, p \in DOMAIN projects, b \in DOMAIN bugs :
        /\ bugs[b].projectid = p
        /\ Cardinality({c \in DOMAIN comments : comments[c].bugid = b}) = 2
        /\ deleteProjectController(DB, tok, p, "forceTrue").status = 200
        /\ deleteProjectController(DB, tok, p, "forceTrue").db.bugs = <<>>
        /\ deleteProjectController(DB, tok, p, "forceTrue").db.comments = <<>>

\* C11: a user delete that succeeds leaves no stored row referring to the
\* deleted user: the reportedby / assignedto of bugs and the createdby /
\* assignedto of projects that named the user are NULL afterwards, the
\* delete succeeds only for a user without created project, assigned bug
\* and authored comment, and in every reachable state every non-NULL
\* user reference (the userid of a comment included) names a stored user.
C11_NoReferenceToDeletedUser ==
    /\ \A b \in DOMAIN bugs :
        /\ bugs[b].reportedby \in {NULL} \cup DOMAIN users
        /\ bugs[b].assignedto \in {NULL} \cup DOMAIN users
    /\ \A p \in DOMAIN projects :
        /\ projects[p].createdby \in {NULL} \cup DOMAIN users
        /\ projects[p].assignedto \in {NULL} \cup DOMAIN users
    /\ \A c \in DOMAIN comments : comments[c].userid \in DOMAIN users
    /\ \A tok \in Actors, u \in DOMAIN users, body \in Bodies :
        LET r == deleteUserController(DB, tok, u, body)
        IN  r.status = 204 =>
              /\ u \notin DOMAIN r.db.users
              /\ \A p \in DOMAIN projects : projects[p].createdby # u
              /\ \A b \in DOMAIN bugs : bugs[b].assignedto # u
              /\ \A c \in DOMAIN comments : comments[c].userid # u
              /\ r.db.comments = comments
              /\ DOMAIN r.db.bugs = DOMAIN bugs
              /\ DOMAIN r.db.projects = DOMAIN projects
              /\ \A b \in DOMAIN bugs :
                   /\ r.db.bugs[b].reportedby =
                        IF bugs[b].reportedby = u THEN NULL
                        ELSE bugs[b].reportedby
                   /\ r.db.bugs[b].assignedto = bugs[b].assignedto
              /\ \A p \in DOMAIN projects :
                   /\ r.db.projects[p].assignedto =
                        IF projects[p].assignedto = u THEN NULL
                        ELSE projects[p].assignedto
                   /\ r.db.projects[p].createdby = projects[p].createdby

\* C11 witness: a user who reported a bug and is the assignee of a
\* project; the user's own delete is answered 204 and leaves both
\* references NULL
C11_ReporterDeleted ==
    \E tok \in Actors, b \in DOMAIN bugs, p \in DOMAIN projects :
        LET r == deleteUserController(DB, tok, tok.userId, "empty")
        IN  /\ bugs[b].reportedby = tok.userId
            /\ projects[p].assignedto = tok.userId
            /\ r.status = 204
            /\ r.db.bugs[b].reportedby = NULL
            /\ r.db.projects[p].assignedto = NULL

Accepted(tok) == authenticateTokenAt(DB, tok, now) = 200

\* C13 as stated: an issued token is accepted exactly until its expiry; the
\* expiry is the only thing that ends it.
C13_ExpiryIsTheOnlyEnd ==
    \A tok \in tokens : Accepted(tok) <=> now < tok.exp

\* One step of a token's life: tokens are only added, a new token expires
\* TokenLifetime hours after its login and is accepted at once, a rejected
\* token stays rejected, and an accepted one is rejected after the step only
\* when its expiry has elapsed or its user has been deleted
C13_Step ==
    /\ tokens \subseteq tokens'
    /\ \A tok \in tokens' \ tokens :
           tok.exp = now + TokenLifetime /\ Accepted(tok)'
    /\ \A tok \in tokens :
           /\ ~Accepted(tok) => ~Accepted(tok)'
           /\ Accepted(tok) /\ ~Accepted(tok)' =>
                 \/ now' >= tok.exp
                 \/ tok.userId \notin DOMAIN users'

\* C13: a token is issued with an expiry 24 hours after the login, is
\* accepted from then on exactly while the expiry has not elapsed and its
\* user is still stored, and once rejected is never accepted again.  No
\* token is ever withdrawn, and no login, registration, password change or
\* profile update ends a token: only the passing of time and the deletion
\* of the token's user do.
C13_TokenLifeCycle ==
    /\ [](\A tok \in tokens :
            /\ tok.exp <= now + TokenLifetime
            /\ Accepted(tok) <=> (now < tok.exp /\ tok.userId \in DOMAIN users)
            /\ Accepted(tok) =>
                 /\ \A actor \in tokens, body \in PasswordBodies :
                        authenticateTokenAt(
                            GuardedAt(actor, now,
                                updateUserPasswordController(DB, actor, body)).db,
                            tok, now) = 200
                 /\ \A actor \in tokens, body \in ProfileBodies :
                        authenticateTokenAt(
                            GuardedAt(actor, now,
                                updateUserProfileController(DB, actor, body)).db,
                            tok, now) = 200
                 /\ \A body \in RegisterInputs :
                        authenticateTokenAt(createUser(DB, body).db, tok, now) = 200
                 /\ \A body \in LoginBodies :
                        authenticateTokenAt(loginUserController(DB, body, now).db,
                                            tok, now) = 200)
    /\ [][C13_Step]_vars

\* C13 witness: a token at the hour of its expiry, rejected although its
\* user is still stored, after the user has changed the password
C13_ExpiredAfterPasswordChange ==
    \E tok \in tokens :
        /\ now = tok.exp
        /\ tok.userId \in DOMAIN users
        /\ users[tok.userId].passwordhash = bcryptHash("password2")
        /\ authenticateTokenAt(DB, tok, now - 1) = 200
        /\ ~Accepted(tok)

\* The email as it is compared: without surrounding white space, lower case
NormalEmail(e) == toLowerCase(trim(e))

\* C14: stored emails are trimmed and lower case and no two stored users
\* have emails that are equal ignoring case and surrounding white space,
\* also when registrations and email changes interleave; a registration or
\* an email change that collides with another user's email is answered 409
\* and stores nothing, whether the collision is met by the service's lookup
\* or by the insert or update of a request that passed the lookup earlier.
C14_EmailsUniqueAndCollisionsConflict ==
    /\ \A u \in DOMAIN users : users[u].email = NormalEmail(users[u].email)
    /\ \A u1, u2 \in DOMAIN users :
           u1 # u2 => NormalEmail(users[u1].email) # NormalEmail(users[u2].email)
    /\ \A body \in RegisterBodies :
           LET r == createUserReply(createUser(DB, body)) IN
           (\E u \in DOMAIN users :
                users[u].email = NormalEmail(body.email)) =>
               r.status = 409 /\ r.db.users = users
    /\ \A tok \in Actors, body \in ProfileBodies :
           LET r == updateUserProfileController(DB, tok, body) IN
           (\E u \in DOMAIN users \ {tok.userId} :
                users[u].email = NormalEmail(body.email)) =>
               r.status = 409 /\ r.db.users = users
    /\ \A req \in inflight :
           LET r == IF req.op = "create"
                    THEN createUserReply(DbInsertUser(DB, req.row))
                    ELSE updateUserProfileReply(DbUpdateUser(DB, req.id, req.row))
           IN  (\E u \in DOMAIN users \ {req.id} :
                    users[u].email = req.row.email) =>
                   r.status = 409 /\ r.db.users = users

\* A Status or Priority that is given (not undefined, not '') and is not
\* one of the valid values
OutsideEnumeration(body) ==
    \/ ~Falsy(body.status) /\ body.status \notin validStatuses
    \/ ~Falsy(body.priority) /\ body.priority \notin validPriorities

C16_CreateBugNeedsExistingProject ==
    \A tok \in Actors, body \in BugBodies :
        LET r == createBugController(DB, tok, body) IN
        /\ body.projectid \notin DOMAIN projects =>
              r.status >= 400 /\ r.db = DB
        /\ r.status = 201 =>
              /\ body.projectid \in DOMAIN projects
              /\ r.db.bugs[r.db.seq.bugs].projectid = body.projectid

\* C16 witness: the project a bug is to be created in has been deleted; the
\* create is rejected although its title and user references are valid
C16_DeletedProjectRejected ==
    \E tok \in Actors :
        /\ seq.projects = 1
        /\ DOMAIN projects = {}
        /\ createBugController(DB, tok,
               [title |-> "n1", projectid |-> 1, reportedby |-> tok.userId,
                assignedto |-> ABSENT]).status = 500

C18_ChangePasswordOutcomes ==
    /\ \A tok \in tokens, body \in PasswordBodies :
           LET r == updateUserPasswordController(DB, tok, body)
               given == body.currentPassword # "" /\ body.newPassword # ""
               weak == Len(body.newPassword) < MinPasswordLength
               wrong == ~bcryptCompare(body.currentPassword,
                                       users[tok.userId].passwordhash)
           IN  Accepted(tok) =>
                 /\ (given /\ weak) => r.status = 400 /\ r.db = DB
                 /\ (given /\ ~weak /\ wrong) => r.status = 401 /\ r.db = DB
                 /\ r.status # 204 => r.db = DB
                 /\ (given /\ ~weak /\ ~wrong) =>
                       /\ r.status = 204
                       /\ r.token = NoToken
                       /\ r.db = [DB EXCEPT !.users[tok.userId].passwordhash =
                                               bcryptHash(body.newPassword)]
                       /\ \A t \in tokens :
                              Accepted(t) => authenticateTokenAt(r.db, t, now) = 200
    /\ \A u \in UserIds \ DOMAIN users, body \in PasswordBodies :
           LET r == updateUserPasswordController(
                        DB, [userId |-> u, role |-> "User", exp |-> now + 1], body)
           IN  (/\ u <= seq.users
                /\ body.currentPassword # "" /\ body.newPassword # ""
                /\ Len(body.newPassword) >= MinPasswordLength) =>
                   r.status = 404 /\ r.db = DB

C20_ProfileUpdateFrame ==
    \A tok \in Actors, body \in ProfileBodies :
        LET r == updateUserProfileController(DB, tok, body)
            me == tok.userId
        IN  /\ DOMAIN r.db.users = DOMAIN users
            /\ \A u \in DOMAIN users \ {me} : r.db.users[u] = users[u]
            /\ r.db.users[me].passwordhash = users[me].passwordhash
            /\ r.db.users[me].role = users[me].role
            /\ r.db.projects = projects /\ r.db.bugs = bugs
            /\ r.db.comments = comments /\ r.db.seq = seq
            /\ r.status # 200 => r.db = DB

C23_ValidationFailuresAnswered400 ==
    /\ \A role \in Roles \cup {Absent} :
         createUserController(DB, FALSE, role).status = 400
    /\ \A tok \in Actors :
         /\ \A body \in BugBodies :
              (body.title = Absent \/ body.projectid = ABSENT) =>
                  createBugController(DB, tok, body).status = 400
         /\ \A body \in CommentBodies :
              (\/ body.bugid = ABSENT \/ body.userid = ABSENT
               \/ body.commenttext = Absent) =>
                  createCommentController(DB, tok, body).status = 400
         /\ \A body \in ProjectBodies :
              (tok.role = "Admin" /\ body.projectname = Absent) =>
                  createProjectController(DB, tok, body).status = 400
         /\ \A b \in DOMAIN bugs, body \in UpdateBugBodies :
              LET r == updateBugController(DB, tok, b, body) IN
              (body.title = "" /\ r.status # 403) => r.status = 400
         /\ \A c \in DOMAIN comments, body \in UpdateCommentBodies :
              body.commenttext = "" =>
                  updateCommentController(DB, tok, c, body).status = 400

\* The step that applies the update r, which was in flight, to the store
C24_Step ==
    \A r \in inflight :
        (/\ r.op = "updateBug"
         /\ inflight' = inflight \ {r}
         /\ r.body.assignedto = ABSENT \/ UserExists(DB, r.body.assignedto)) =>
            /\ updateBugControllerWrite(DB, r).status = 200
            /\ bugs'[r.id].title =
                 IF r.body.title = Absent THEN bugs[r.id].title ELSE r.body.title
            /\ bugs'[r.id].assignedto =
                 IF r.body.assignedto = ABSENT THEN bugs[r.id].assignedto
                 ELSE r.body.assignedto

\* C24: concurrent updates of a bug are last-write-wins.  An update that has
\* passed the permission check completes with 200 whatever other updates
\* were applied to the row since, and right after it is applied every field
\* it names holds its value, while the fields it does not name hold what the
\* update applied before it left there.
C24_LastWriteWins == [][C24_Step]_vars

\* C24 witness: an update is in flight for a bug that another update has
\* rewritten since the permission check of the first, to a title other than
\* the one the first is about to write
C24_RowRewrittenUnderUpdate ==
    \E r \in inflight :
        /\ r.op = "updateBug"
        /\ r.id \in DOMAIN bugs
        /\ r.seen # bugs[r.id]
        /\ r.body.title # Absent
        /\ r.body.title # bugs[r.id].title
        /\ bugs[r.id].title # r.seen.title

\* C25: when the creator of a project, of a bug of that project and of a
\* comment on that bug sends the three deletes together, without a payload,
\* then in whichever order the three are handled each is answered 200, and
\* afterwards none of the three rows exists.
C25_ConcurrentDeletesAllSucceed ==
    LET DeleteOrders ==
            {o \in [1..3 -> {"comment", "bug", "project"}] :
                \A i, j \in 1..3 : o[i] = o[j] => i = j}
        DeleteOf(kind, db, tok, c, b, p, body) ==
            CASE kind = "comment" -> deleteCommentController(db, tok, c, body)
              [] kind = "bug" -> deleteBugController(db, tok, b, body)
              [] kind = "project" -> deleteProjectController(db, tok, p, body)
    IN
    \A tok \in Actors, p \in DOMAIN projects, b \in DOMAIN bugs,
       c \in DOMAIN comments, body \in ParsedBodies("nobody"), o \in DeleteOrders :
        (/\ projects[p].createdby = tok.userId
         /\ bugs[b].projectid = p /\ bugs[b].reportedby = tok.userId
         /\ comments[c].bugid = b /\ comments[c].userid = tok.userId) =>
            LET r1 == DeleteOf(o[1], DB, tok, c, b, p, body)
                r2 == DeleteOf(o[2], r1.db, tok, c, b, p, body)
                r3 == DeleteOf(o[3], r2.db, tok, c, b, p, body)
            IN  /\ r1.status = 200 /\ r2.status = 200 /\ r3.status = 200
                /\ p \notin DOMAIN r3.db.projects
                /\ b \notin DOMAIN r3.db.bugs
                /\ c \notin DOMAIN r3.db.comments

\* The registrations whose role is missing or is not a string
DefaultRoleBodies ==
    [username : {<<"n">>}, email : {EmailA, EmailB}, password : {"password1"},
     role : {Absent, NotAString}]

\* C26: a bug created from a valid payload without Status has status
\* "Open" and one without Priority has priority "Medium"; a user registered
\* from a valid payload without a role, or with a role that is not a string,
\* has role "User".
C26_DefaultsPopulated ==
    /\ \A tok \in Actors, body \in StatusBugBodies :
         LET r == createBugController(DB, tok, body)
             id == seq.bugs + 1
         IN  r.status = 201 =>
               /\ body.status = Absent => r.db.bugs[id].status = "Open"
               /\ body.priority = Absent => r.db.bugs[id].priority = "Medium"
    /\ \A body \in DefaultRoleBodies :
         LET r == createUser(DB, body)
             id == seq.users + 1
         IN  r.err = "none" => r.db.users[id].role = "User"

\* C26 witness: a bug is stored with the defaults, and a registration whose
\* role is a number is accepted while an actor may create a bug without
\* Status and Priority
C26_CreatedWithDefaults ==
    /\ \E b \in DOMAIN bugs : bugs[b].status = "Open" /\ bugs[b].priority = "Medium"
    /\ \E body \in DefaultRoleBodies :
         body.role = NotAString /\ createUser(DB, body).err = "none"
    /\ \E tok \in Actors :
         createBugController(DB, tok,
             [title |-> "n1", projectid |-> 1, reportedby |-> ABSENT,
              assignedto |-> ABSENT, status |-> Absent,
              priority |-> Absent]).status = 201

\* The step that runs the DELETE statement of the delete r, which was in
\* flight and was sent without a payload, hence without force: the bugs (of
\* a project) and the comments (of a bug) stored before it are stored after
\* it
C27_Step ==
    \A r \in inflight :
        (/\ r.op \in {"deleteBug", "deleteProject"}
         /\ inflight' = inflight \ {r}
         /\ r.body = "none") =>
            /\ DOMAIN comments \subseteq DOMAIN comments'
            /\ DOMAIN bugs \ {IF r.op = "deleteBug" THEN r.id ELSE ABSENT}
                   \subseteq DOMAIN bugs'

\* C27: a delete of a project or of a bug that was sent without force
\* removes no bug of the project and no comment of the bug, also when the
\* dependent was created between the count of the dependents and the DELETE
\* statement.
C27_GuardHoldsUnderConcurrency == [][C27_Step]_vars

\* C28: no request is allowed on the strength of a role that the actor no
\* longer holds: when the create of a project, the update of a project or of
\* a bug, or the delete of a user is not refused (403) for the actor of an
\* accepted token, it is not refused for the same actor with the role that
\* is stored for the user now.
C28_DecisionsUseStoredRole ==
    LET WithStoredRole(tok) == [tok EXCEPT !.role = users[tok.userId].role] IN
    \A tok \in Actors :
        /\ \A body \in ProjectBodies :
             createProjectController(DB, tok, body).status # 403 =>
                 createProjectController(DB, WithStoredRole(tok), body).status # 403
        /\ \A p \in DOMAIN projects, body \in PartialProjectBodies :
             updateProjectController(DB, tok, p, body).status # 403 =>
                 updateProjectController(DB, WithStoredRole(tok), p, body).status # 403
        /\ \A b \in DOMAIN bugs, body \in PartialBugBodies :
             updateBugController(DB, tok, b, body).status # 403 =>
                 updateBugController(DB, WithStoredRole(tok), b, body).status # 403
        /\ \A u \in DOMAIN users, body \in Bodies :
             deleteUserController(DB, tok, u, body).status # 403 =>
                 deleteUserController(DB, WithStoredRole(tok), u, body).status # 403

\* C29: the creator recorded on a new row is the actor of the request: the
\* createdby of a created project, the reportedby of a created bug and the
\* userid of a created comment are the user id of the accepted token,
\* whatever the body carries.
C29_CreatorIsTheActor ==
    \A tok \in Actors :
        /\ \A body \in ProjectBodies :
             LET r == createProjectController(DB, tok, body) IN
             r.status = 201 =>
                 r.db.projects[seq.projects + 1].createdby = tok.userId
        /\ \A body \in BugBodies :
             LET r == createBugController(DB, tok, body) IN
             r.status = 201 => r.db.bugs[seq.bugs + 1].reportedby = tok.userId
        /\ \A body \in CommentBodies :
             LET r == createCommentController(DB, tok, body) IN
             r.status = 201 =>
                 r.db.comments[seq.comments + 1].userid = tok.userId

\* What holds of a call of getPool at every moment
C30_CallInvariant(c) ==
    /\ c.attempt \in 1..MAX_RETRIES
    /\ c.waited = RETRY_DELAY_MS * (c.attempt - 1)
    /\ c.pc = "connect" => Len(c.errors) = c.attempt - 1
    /\ c.pc = "wait" => c.attempt < MAX_RETRIES /\ Len(c.errors) = c.attempt
    /\ c.pc = "returned" => Len(c.errors) = c.attempt - 1 /\ c.thrown = "none"
    /\ c.pc = "thrown" =>
         /\ c.attempt = MAX_RETRIES
         /\ Len(c.errors) = MAX_RETRIES
         /\ c.thrown = c.errors[MAX_RETRIES]

\* C30: getPool terminates.  A call makes at most MAX_RETRIES attempts and
\* has waited RETRY_DELAY_MS once for each failed attempt but the last; it
\* returns at the first attempt that connects, all the earlier ones having
\* failed; it throws only after MAX_RETRIES failures, and then the error of
\* the last one; and every call that is running ends, returned or thrown.
C30_GetPoolTerminates ==
    /\ [](\A c \in inflight : c.op = "getPool" => C30_CallInvariant(c))
    /\ (\E c \in inflight : c.op = "getPool" /\ c.pc \in {"connect", "wait"})
         ~> (\E c \in inflight : c.op = "getPool" /\ c.pc \in {"returned", "thrown"})

\* C30 witness: a call has thrown after ten failures, the last of them with
\* another error than the one before, having waited nine times
C30_ThrownAfterTenFailures ==
    \E c \in inflight :
        /\ c.op = "getPool" /\ c.pc = "thrown"
        /\ c.errors[MAX_RETRIES - 1] # c.errors[MAX_RETRIES]
        /\ c.thrown = c.errors[MAX_RETRIES]
        /\ c.waited = 45000

====
